---- MODULE Spec2Model ----
(***************************************************************************)
(* A model of blueberry's agents (src/src/blueberry/agents.py):            *)
(*   - MasterAgent.verify_with_user_loop, the interactive refinement loop  *)
(*     over Intent.features (specification SpecRefine);                    *)
(*   - MasterAgent.understand_intent and MasterAgent.create_spec, the two  *)
(*     model-backed stages with their error wrapping and the spec file     *)
(*     (specification SpecMaster);                                         *)
(*   - CodeAgent.implement_features / transform_template, the pipeline of  *)
(*     agent calls and file edits (specification SpecCode; SpecCodeFair    *)
(*     adds that every call is answered; SpecPlans runs                    *)
(*     implement_features with every plan kept in the history).            *)
(* The operator's answers, the model's replies, the agent's results and    *)
(* the failures of external calls are the nondeterministic inputs.         *)
(***************************************************************************)
EXTENDS Integers, Sequences, FiniteSets, TLC

\* ------------------------------------------------------------------ bounds

\* Largest max_attempts argument tried.
MaxAttemptsBound == 2
\* max_attempts ranges from -NegAttempts up to MaxAttemptsBound.
NegAttempts == 1
\* Longest project name, in characters.
MaxNameLen == 2
\* Most units (components, API routes and database tables together) in a
\* spec.
MaxUnits == 3
\* Longest files list in a plan.
MaxFiles == 2
\* Longest initial feature list.
MaxInitLen == 2
\* Most units in a spec in the runs that keep every plan in the history.
MaxPlanUnits == 2
\* Loop iterations explored (remove on an empty list is not counted by the
\* code, so the number of iterations has no bound of its own).
MaxIters == 5

\* --------------------------------------------------------------- variables

VARIABLES
    \* verify_with_user_loop
    lpc,              \* position: the prompt the loop waits at, or its end
    features,         \* intent.features
    attempts,         \* attempts
    max_attempts,     \* max_attempts
    new_feature,      \* new_feature
    enhanced_feature, \* enhanced_feature
    lexc,             \* exception that left the loop, "none" if none
    iters,            \* history: loop bodies entered
    skipped,          \* history: iterations ended by `continue` (line 133)
    modelCalls,       \* history: validate_feature calls made
    typed,            \* history: the text the operator typed at line 110
    lastOp,           \* history: the last step taken, with the list before it
    features0,        \* history: intent.features at the call
    changed           \* history: steps so far that changed intent.features

    \* understand_intent / create_spec
VARIABLES
    method,           \* the public method the caller invoked
    mpc,              \* position inside it
    spec,             \* the ProjectSpec the model returned, NoSpec before
    dirExists,        \* whether the directory specs/ exists
    files,            \* the files under specs/: name -> text, or NoFile
    spec_file,        \* spec_file, <<>> before line 182
    buffer,           \* the open file's write buffer, not yet on disk
    mexc,             \* the exception that reached the caller, NoExc if none
    mret,             \* whether the method returned its value
    thrown,           \* history: the exception raised inside the try block
    failedAt,         \* history: the step that raised it, "none" if none
    dir0,             \* history: dirExists at the call
    files0            \* history: files at the call

masterVars == <<method, mpc, spec, dirExists, files, spec_file, buffer, mexc,
                mret, thrown, failedAt, dir0, files0>>

    \* CodeAgent.implement_features / transform_template
VARIABLES
    entry,            \* the public method the caller invoked
    cpc,              \* position: the agent call that comes next, or the end
    nComp,            \* len(spec.structure.components)
    nRoute,           \* len(spec.structure.api_routes)
    nTable,           \* len(spec.structure.database)
    phase,            \* index in PhaseOrder of the phase being run
    unit,             \* index of the unit being planned or edited
    pending,          \* file edits of the current plan still to be issued
    analysis,         \* analysis
    ctx,              \* implementation_context
    log,              \* history: the agent calls issued, in order
    applied,          \* history: the number of file edits that returned
    noEdit,           \* history: units whose plan carried nothing to edit
    cexc,             \* the exception that reached the caller, NoExc if none
    cthrown,          \* history: the exception the failing call raised
    cret,             \* the value returned, "" before
    printed,          \* history: the error lines the handlers printed
    keepPlans,        \* history: whether lastPlan and issued are kept
    lastPlan,         \* history: <<plan>>, the last planning call's result
    issued            \* history: the file edits issued from lastPlan

codeVars == <<entry, cpc, nComp, nRoute, nTable, phase, unit, pending,
              analysis, ctx, log, applied, noEdit, cexc, cthrown, cret,
              printed, keepPlans, lastPlan, issued>>

loopVars == <<lpc, features, attempts, max_attempts, new_feature,
              enhanced_feature, lexc, iters, skipped, modelCalls, typed,
              lastOp, features0, changed>>

vars == <<loopVars, masterVars, codeVars>>

\* -------------------------------------------------------------- exceptions

\* Exception classes the external calls are seen to raise.  The first three
\* derive from Exception; KeyboardInterrupt derives from BaseException only.
ExcKinds == {"APIError", "OSError", "ValueError", "KeyboardInterrupt"}

\* issubclass(k, Exception); rich's MarkupError derives from Exception too.
IsException(k) == k \in {"APIError", "OSError", "ValueError", "MarkupError"}

\* Texts of the exceptions' messages: a plain one, and one that holds a
\* closing markup tag with no tag open.
MarkupTags == {"[/x]"}
ExcTexts == {"cause", "[/x]"}

\* console.print(f"[red]...: {str(e)}[/red]") renders its text as markup
\* (lines 126, 291, 474, 493): a closing tag in the message that matches no
\* open tag makes the print raise MarkupError instead of printing.
HasMarkup(msg) == \E i \in DOMAIN msg : msg[i] \in MarkupTags

\* ------------------------------------------------------------ list helpers

\* list.pop(k) on a Python list: k is 0-based, a negative k counts from the
\* end.  The result is the list left behind.
PopIndex(s, k) == IF k < 0 THEN k + Len(s) ELSE k

MutPop(s, k) ==
    LET j == PopIndex(s, k + 1)
    IN  [x \in 1..(Len(s) - 1) |-> IF x <= j THEN s[x] ELSE s[x + 1]]
Pop(s, k) ==
    LET j == PopIndex(s, k)
    IN  [x \in 1..(Len(s) - 1) |-> IF x <= j THEN s[x] ELSE s[x + 1]]

\* str(i) and int(s) on the small numbers the prompts use.
Digits == <<"0", "1", "2", "3", "4", "5", "6", "7", "8", "9">>
Str(i) == Digits[i + 1]
IntOf(s) == CHOOSE i \in 0..9 : Digits[i + 1] = s

\* [str(i) for i in range(1, n + 1)]
IndexChoices(n) == {Str(i) : i \in 1..n}

\* ---------------------------------------------------- verify_with_user_loop

\* Feature texts the operator types and the initial list holds.
RawTexts == {"a", "b"}
\* Intent.features lists the enhancement model returns.
EnhanceReplies == {<<>>, <<"a">>, <<"A">>}
\* What the operator may type at a numbered prompt.
Answers == {Str(i) : i \in 0..(MaxInitLen + MaxAttemptsBound + 1)}

SeqsUpTo(S, n) == UNION {[1..k -> S] : k \in 0..n}

NoOp == [op |-> "none", arg |-> 0, exc |-> "none", before |-> <<>>, att |-> 0]

\* The record of one step: what was done, the index or exception class it
\* came with, and the list and the counter it started from.
Step(op, arg, exc) ==
    [op |-> op, arg |-> arg, exc |-> exc, before |-> features, att |-> attempts]

\* `while attempts < max_attempts` followed by the return.
MutLoopHead(att, max) == IF att <= max THEN "confirm" ELSE "done"
MutLoopHeadEarly(att, max) == IF att + 1 < max THEN "confirm" ELSE "done"
LoopHead(att, max) == IF att < max THEN "confirm" ELSE "done"

\* Line 133: `continue` goes back to the loop test past `attempts += 1`
\* (line 144); the counter the test then sees.
MutSkipCount(att) == att + 1
SkipCount(att) == att

\* Lines 120-121: new_feature after the operator's answer on the enhanced
\* version.
MutChosen(yes, raw, enhanced) == enhanced
Chosen(yes, raw, enhanced) == IF yes THEN enhanced ELSE raw

\* intent.features[0] if intent.features else feature
ValidateResult(reply, feature) == IF Len(reply) > 0 THEN reply[1] ELSE feature

\* The CodeAgent, not running.
IdleCode ==
    /\ entry = "none"
    /\ cpc = "idle"
    /\ nComp = 0
    /\ nRoute = 0
    /\ nTable = 0
    /\ phase = 0
    /\ unit = 0
    /\ pending = <<>>
    /\ analysis = ""
    /\ ctx = ""
    /\ log = <<>>
    /\ applied = 0
    /\ noEdit = {}
    /\ cexc = [cls |-> "none", msg |-> <<>>]
    /\ cthrown = [cls |-> "none", msg |-> <<>>]
    /\ cret = ""
    /\ printed = <<>>
    /\ keepPlans = FALSE
    /\ lastPlan = <<>>
    /\ issued = <<>>

\* understand_intent and create_spec, not running.
IdleMaster ==
    /\ method = "none"
    /\ mpc = "idle"
    /\ spec = [name |-> <<>>, description |-> <<>>, features |-> <<>>,
               structure |-> [components |-> <<>>]]
    /\ dirExists = FALSE
    /\ files = <<>>
    /\ spec_file = <<>>
    /\ buffer = <<>>
    /\ mexc = [cls |-> "none", msg |-> <<>>]
    /\ mret = FALSE
    /\ thrown = [cls |-> "none", msg |-> <<>>]
    /\ failedAt = "none"
    /\ dir0 = FALSE
    /\ files0 = <<>>

InitRefine ==
    /\ IdleMaster
    /\ IdleCode
    /\ lpc = "start"
    /\ features \in SeqsUpTo(RawTexts, MaxInitLen)
    /\ attempts = 0
    /\ max_attempts \in (0 - NegAttempts)..MaxAttemptsBound
    /\ new_feature = ""
    /\ enhanced_feature = ""
    /\ lexc = "none"
    /\ iters = 0
    /\ skipped = 0
    /\ modelCalls = 0
    /\ typed = ""
    /\ lastOp = NoOp
    /\ features0 = features
    /\ changed = 0

\* The list at the call stays on record, and a step that leaves the list
\* different from what it was is counted as a change.
Recorded ==
    /\ features0' = features0
    /\ changed' = IF features' # features THEN changed + 1 ELSE changed

\* The end of one counted iteration: attempts += 1 and the loop test.
MutCountedTwice(op, arg, exc) ==
    /\ attempts' = attempts + 2
    /\ lpc' = LoopHead(attempts + 2, max_attempts)
    /\ iters' = IF LoopHead(attempts + 2, max_attempts) = "confirm"
                THEN iters + 1 ELSE iters
    /\ lastOp' = Step(op, arg, exc)
MutCounted(op, arg, exc) ==
    /\ attempts' = attempts
    /\ lpc' = LoopHead(attempts, max_attempts)
    /\ iters' = IF LoopHead(attempts, max_attempts) = "confirm"
                THEN iters + 1 ELSE iters
    /\ lastOp' = Step(op, arg, exc)
Counted(op, arg, exc) ==
    /\ attempts' = attempts + 1
    /\ lpc' = LoopHead(attempts + 1, max_attempts)
    /\ iters' = IF LoopHead(attempts + 1, max_attempts) = "confirm"
                THEN iters + 1 ELSE iters
    /\ lastOp' = Step(op, arg, exc)

\* Lines 91-92: attempts = 0 and the first loop test.
MutLoopEnter ==
    /\ UNCHANGED <<masterVars, codeVars>>
    /\ lpc = "start"
    /\ lpc' = "confirm"
    /\ iters' = 1
    /\ lastOp' = Step("enter", 0, "none")
    /\ UNCHANGED <<typed, features, attempts, max_attempts, new_feature,
                   enhanced_feature, lexc, skipped, modelCalls>>
    /\ Recorded
LoopEnter ==
    /\ UNCHANGED <<masterVars, codeVars>>
    /\ lpc = "start"
    /\ lpc' = LoopHead(attempts, max_attempts)
    /\ iters' = IF LoopHead(attempts, max_attempts) = "confirm" THEN 1 ELSE 0
    /\ lastOp' = Step("enter", 0, "none")
    /\ UNCHANGED <<typed, features, attempts, max_attempts, new_feature,
                   enhanced_feature, lexc, skipped, modelCalls>>
    /\ Recorded

\* Lines 98-99: "Would you like to modify these features?"
ConfirmModify ==
    /\ UNCHANGED <<masterVars, codeVars>>
    /\ lpc = "confirm"
    /\ \E yes \in BOOLEAN :
          /\ lpc' = IF yes THEN "choice" ELSE "done"
          /\ lastOp' = Step(IF yes THEN "modify" ELSE "decline", 0, "none")
    /\ UNCHANGED <<typed, features, attempts, max_attempts, new_feature,
                   enhanced_feature, lexc, iters, skipped, modelCalls>>
    /\ Recorded

\* Lines 107-109, 130-133, 141-142: the option prompt.
ChooseOption ==
    /\ UNCHANGED <<masterVars, codeVars>>
    /\ lpc = "choice"
    /\ \E choice \in Answers :
          /\ choice \in {"1", "2", "3"}
          /\ \/ /\ choice = "1"
                /\ lpc' = "enter_feature"
                /\ lastOp' = Step("choose_add", 0, "none")
                /\ UNCHANGED <<attempts, iters, skipped>>
             \/ /\ choice = "2"
                /\ features # <<>>
                /\ lpc' = "remove_idx"
                /\ lastOp' = Step("choose_remove", 0, "none")
                /\ UNCHANGED <<attempts, iters, skipped>>
             \/ /\ choice = "2"
                /\ features = <<>>
                /\ iters < MaxIters
                /\ attempts' = SkipCount(attempts)
                /\ lpc' = LoopHead(SkipCount(attempts), max_attempts)
                /\ lastOp' = Step("remove_empty", 0, "none")
                /\ skipped' = skipped + 1
                /\ iters' = IF LoopHead(SkipCount(attempts), max_attempts)
                               = "confirm"
                            THEN iters + 1 ELSE iters
             \/ /\ choice = "3"
                /\ lpc' = "done"
                /\ lastOp' = Step("choose_done", 0, "none")
                /\ UNCHANGED <<attempts, iters, skipped>>
    /\ UNCHANGED <<typed, features, max_attempts, new_feature,
                   enhanced_feature, lexc, modelCalls>>
    /\ Recorded

\* Line 110: "Enter new feature".
EnterFeature ==
    /\ UNCHANGED <<masterVars, codeVars>>
    /\ lpc = "enter_feature"
    /\ \E text \in RawTexts : new_feature' = text /\ typed' = text
    /\ lpc' = "ask_enhance"
    /\ lastOp' = Step("enter_feature", 0, "none")
    /\ UNCHANGED <<features, attempts, max_attempts, enhanced_feature, lexc,
                   iters, skipped, modelCalls>>
    /\ Recorded

\* Line 113: "Would you like AI to validate and enhance this feature?"
\* A "no" goes straight to the append (line 128) and the count (line 144).
AskEnhance ==
    /\ UNCHANGED <<masterVars, codeVars>>
    /\ lpc = "ask_enhance"
    /\ \E yes \in BOOLEAN :
          \/ /\ yes
             /\ lpc' = "validate"
             /\ lastOp' = Step("ask_enhance", 0, "none")
             /\ UNCHANGED <<features, attempts, iters>>
          \/ /\ ~yes
             /\ features' = Append(features, new_feature)
             /\ Counted("add_raw", 0, "none")
    /\ UNCHANGED <<typed, max_attempts, new_feature, enhanced_feature, lexc, skipped,
                   modelCalls>>
    /\ Recorded

\* The handler of lines 124-126 around validate_feature: an exception of
\* class k is caught when k derives from Exception.
ValidateCaught(k) == IsException(k)

\* Lines 116-126 with validate_feature (lines 42-76): the enhancement call
\* returns a reply or raises.  A caught exception is reported by the print
\* of line 126 and the loop goes on to the append of line 128; when the
\* print itself raises, its MarkupError leaves the handler and the loop,
\* and line 128 is not reached.
ValidateCall ==
    /\ UNCHANGED <<masterVars, codeVars>>
    /\ lpc = "validate"
    /\ modelCalls' = modelCalls + 1
    /\ \/ \E reply \in EnhanceReplies :
             LET e == ValidateResult(reply, new_feature)
             IN  /\ enhanced_feature' = e
                 /\ \/ /\ e # new_feature
                       /\ lpc' = "ask_use"
                       /\ lastOp' = Step("validated", 0, "none")
                       /\ UNCHANGED <<features, attempts, iters>>
                    \/ /\ e = new_feature
                       /\ features' = Append(features, new_feature)
                       /\ Counted("add_same", 0, "none")
                 /\ UNCHANGED lexc
       \/ \E k \in ExcKinds, m \in ExcTexts :
             \/ /\ ValidateCaught(k)
                /\ ~HasMarkup(<<m>>)
                /\ features' = Append(features, new_feature)
                /\ Counted("validate_raised", 0, k)
                /\ UNCHANGED <<enhanced_feature, lexc>>
             \/ /\ ValidateCaught(k)
                /\ HasMarkup(<<m>>)
                /\ lpc' = "aborted"
                /\ lexc' = "MarkupError"
                /\ lastOp' = Step("report_raised", 0, k)
                /\ UNCHANGED <<features, attempts, enhanced_feature, iters>>
             \/ /\ ~ValidateCaught(k)
                /\ lpc' = "aborted"
                /\ lexc' = k
                /\ lastOp' = Step("validate_raised", 0, k)
                /\ UNCHANGED <<features, attempts, enhanced_feature, iters>>
    /\ UNCHANGED <<typed, max_attempts, new_feature, skipped>>
    /\ Recorded

\* Lines 120-121, 128, 144: "Would you like to use the enhanced version?"
AskUseEnhanced ==
    /\ UNCHANGED <<masterVars, codeVars>>
    /\ lpc = "ask_use"
    /\ \E yes \in BOOLEAN :
          /\ new_feature' = Chosen(yes, new_feature, enhanced_feature)
          /\ features' = Append(features, new_feature')
          /\ Counted(IF yes THEN "add_enhanced" ELSE "add_rejected", 0, "none")
    /\ UNCHANGED <<typed, max_attempts, enhanced_feature, lexc, skipped, modelCalls>>
    /\ Recorded

\* Lines 135-139, 144: the index prompt, the pop and the count.
RemoveFeature ==
    /\ UNCHANGED <<masterVars, codeVars>>
    /\ lpc = "remove_idx"
    /\ \E answer \in Answers :
          /\ answer \in IndexChoices(Len(features))
          /\ LET remove_idx == IntOf(answer) - 1
             IN  /\ features' = Pop(features, remove_idx)
                 /\ Counted("remove", IntOf(answer), "none")
    /\ UNCHANGED <<typed, max_attempts, new_feature, enhanced_feature, lexc, skipped,
                   modelCalls>>
    /\ Recorded

NextRefine ==
    \/ LoopEnter
    \/ ConfirmModify
    \/ ChooseOption
    \/ EnterFeature
    \/ AskEnhance
    \/ ValidateCall
    \/ AskUseEnhanced
    \/ RemoveFeature

SpecRefine == InitRefine /\ [][NextRefine]_vars

\* ------------------------------------------- claims on the refinement loop

LoopEnded == lpc \in {"done", "aborted"}
Max0(n) == IF n < 0 THEN 0 ELSE n

\* The list s with its i-th element (1-based) deleted, the rest in order.
IsDeletion(r, s, i) ==
    /\ Len(r) = Len(s) - 1
    /\ \A j \in 1..Len(r) : r[j] = IF j < i THEN s[j] ELSE s[j + 1]

\* Exception classes that derive from Exception.
ExceptionDerived == {"APIError", "OSError", "ValueError", "MarkupError"}

\* C2 as stated: verify_with_user_loop never runs more than max_attempts+1
\* iterations of its loop.  Refuted: an iteration in which the operator
\* picks remove on an empty list is not counted, and can repeat.
C2_AtMostMaxPlusOneIterations == iters <= max_attempts + 1

\* C2 amended: leaving aside the iterations ended by a remove on an empty
\* list, the loop runs at most max(max_attempts, 0) + 1 iterations, and
\* until it ends it can always take a step.
C2_CountedIterationsBounded ==
    /\ iters - skipped <= Max0(max_attempts) + 1
    /\ ~LoopEnded => ENABLED NextRefine

\* The case of C2: the loop ended at the bound after more than
\* max_attempts + 1 iterations, the extra ones being removes on an empty list.
C2_Witness ==
    /\ lpc = "done"
    /\ max_attempts >= 1
    /\ attempts = max_attempts
    /\ skipped >= 2
    /\ iters > max_attempts + 1

\* C3 as stated: the attempt counter never exceeds max_attempts.  Refuted
\* by a negative max_attempts, under which the counter stays at 0.
C3_AttemptsAtMostMax == lpc # "start" => attempts <= max_attempts

\* C3 amended: the attempt counter never exceeds max(max_attempts, 0); it
\* never exceeds max_attempts when max_attempts >= 0.
C3_AttemptsAtMostMax0 == attempts <= Max0(max_attempts)

\* The case of C3: the counter has reached a positive max_attempts.
C3_Witness ==
    /\ max_attempts >= 2
    /\ attempts = max_attempts
    /\ lpc = "done"

\* C4: a remove step acts on a list of length n >= 1 with an index i in
\* 1..n only, and leaves the list with exactly its i-th element deleted.
C4_RemoveDeletesIth ==
    lastOp.op = "remove" =>
        /\ Len(lastOp.before) >= 1
        /\ lastOp.arg \in 1..Len(lastOp.before)
        /\ IsDeletion(features, lastOp.before, lastOp.arg)

\* The case of C4: an inner element of a three-element list was removed.
C4_Witness ==
    /\ lastOp.op = "remove"
    /\ Len(lastOp.before) = 3
    /\ lastOp.arg = 2
    /\ lastOp.before[1] # lastOp.before[2]

\* What C10 promises after a failed enhancement call: the loop goes on with
\* the typed text appended and the attempt counted.
KeptRawAndWentOn ==
    /\ lexc = "none"
    /\ features = Append(lastOp.before, typed)
    /\ attempts = lastOp.att + 1
    /\ lpc \in {"confirm", "done"}
    /\ lpc = "done" => attempts >= max_attempts

\* C10, for the exceptions the handler of line 124 is written for (those
\* deriving from Exception): when the enhancement call raises, the loop is
\* not aborted: the typed text is appended as the last element, the attempt
\* is counted, and the loop goes on to its next iteration or ends because
\* the attempt bound is reached.  Refuted by the code: when the message of
\* the exception holds a closing markup tag, the report of line 126 raises
\* MarkupError and the loop is aborted before the append of line 128.
C10_RaiseKeepsRaw ==
    (lastOp.op \in {"validate_raised", "report_raised"}
        /\ lastOp.exc \in ExceptionDerived) => KeptRawAndWentOn

\* The steps that end a return of the loop by the operator's answer.
OperatorEnded == lastOp.op \in {"decline", "choose_done"}

\* C11: verify_with_user_loop returns only when the operator declined
\* further modification, when the operator selected "done", or when the
\* attempt counter has reached max_attempts (attempts >= max_attempts at the
\* loop test); in every other state the loop goes on to its next prompt.
\* Ending by an exception that propagates is not a return: it happens only
\* for an enhancement call raising outside Exception, or for the report of
\* a caught exception raising in the handler.
C11_ReturnsOnlyWhenDeclinedDoneOrMax ==
    /\ lpc = "done" => (OperatorEnded \/ attempts >= max_attempts)
    /\ (lpc = "done" /\ ~OperatorEnded) =>
          lastOp.op \in {"enter", "remove_empty", "add_raw", "add_same",
                         "add_enhanced", "add_rejected", "validate_raised",
                         "remove"}
    /\ (lpc \notin {"start", "done", "aborted"}) =>
          (attempts < max_attempts /\ ~OperatorEnded /\ ENABLED NextRefine)
    /\ lpc = "aborted" =>
          \/ lastOp.op = "validate_raised" /\ lexc \notin ExceptionDerived
          \/ lastOp.op = "report_raised" /\ lexc = "MarkupError"

\* The case of C11: a return forced by the counter after two modifications,
\* the operator never having declined or picked "done".
C11_Witness ==
    /\ lpc = "done"
    /\ lastOp.op = "remove"
    /\ max_attempts = 2
    /\ attempts = 2

\* The steps that complete an add: the append of line 128 was reached.
AddCompleted ==
    \/ lastOp.op \in {"add_raw", "add_same", "add_enhanced", "add_rejected"}
    \/ lastOp.op = "validate_raised" /\ lastOp.exc \in ExceptionDerived

\* C18: an add step appends exactly one element at the end of the list and
\* leaves the elements before it as they were; the appended text is the
\* text the operator typed, except when enhancement was requested, the call
\* returned a different text and the operator accepted it: then, and only
\* then, it is the enhanced text.
C18_AddAppendsOne ==
    AddCompleted =>
        /\ Len(features) = Len(lastOp.before) + 1
        /\ \A j \in 1..Len(lastOp.before) : features[j] = lastOp.before[j]
        /\ attempts = lastOp.att + 1
        /\ IF lastOp.op = "add_enhanced"
           THEN /\ features[Len(features)] = enhanced_feature
                /\ enhanced_feature # typed
                /\ modelCalls >= 1
           ELSE features[Len(features)] = typed

\* The case of C18: the operator turned the enhanced text down and the raw
\* text was appended to a non-empty list.
C18_Witness ==
    /\ lastOp.op = "add_rejected"
    /\ Len(lastOp.before) >= 1
    /\ enhanced_feature = "A"
    /\ features = Append(lastOp.before, typed)

\* C20: choosing remove while the list is empty leaves the list and the
\* attempt counter as they were, makes no model call, and the loop is back
\* at the continue prompt.
C20_RemoveOnEmptyNotCounted ==
    lastOp.op = "remove_empty" =>
        /\ lastOp.before = <<>>
        /\ features = <<>>
        /\ attempts = lastOp.att
        /\ attempts < max_attempts
        /\ lpc = "confirm"
        /\ lexc = "none"

\* The case of C20: remove on an empty list twice in a row with one attempt
\* already counted.
C20_Witness ==
    /\ lastOp.op = "remove_empty"
    /\ skipped >= 2
    /\ attempts = 1
    /\ max_attempts = 2

\* |Len(features) - Len(features0)|
LengthChange ==
    IF Len(features) >= Len(features0)
    THEN Len(features) - Len(features0)
    ELSE Len(features0) - Len(features)

\* C21 as stated: when the loop has returned, the attempt counter equals
\* the number of steps that changed the list, at most max_attempts changes
\* were applied, and the length of the list differs from the initial length
\* by at most max_attempts.  Refuted by a negative max_attempts: the loop
\* returns at once with no change, and 0 exceeds max_attempts.
C21_ChangesAtMostMax ==
    lpc = "done" =>
        /\ attempts = changed
        /\ changed <= max_attempts
        /\ LengthChange <= max_attempts

\* C21 amended: at every point of the loop the attempt counter equals the
\* number of add and remove steps that changed the list, so that at most
\* max(max_attempts, 0) changes are applied and the length of the list
\* differs from the initial length by at most max(max_attempts, 0).
C21_ChangesAtMostMax0 ==
    /\ attempts = changed
    /\ changed <= Max0(max_attempts)
    /\ LengthChange <= changed
    /\ LengthChange <= Max0(max_attempts)
    /\ (lastOp.op \in {"decline", "choose_done", "remove_empty", "modify",
                       "choose_add", "choose_remove", "enter_feature",
                       "ask_enhance", "validated", "enter"}
          => features = lastOp.before)

\* The case of C21: the loop returned at the bound after two adds to an
\* empty list, a remove on the empty list before them having changed and
\* counted nothing.
C21_Witness ==
    /\ lpc = "done"
    /\ max_attempts = 2
    /\ changed = 2
    /\ skipped >= 1
    /\ features0 = <<>>
    /\ Len(features) = 2

\* The loop returned without its body doing anything: it was never entered
\* (max_attempts <= 0), or the operator declined at the first prompt, or
\* picked "done" as the first choice.
ReturnedAtOnce ==
    /\ lpc = "done"
    /\ \/ max_attempts <= 0
       \/ iters = 1 /\ lastOp.op \in {"decline", "choose_done"}

\* C22: a loop that returned at once returns the list it was given, same
\* elements in the same order, and has made no model call.
C22_ReturnedAtOnceUnchanged ==
    ReturnedAtOnce =>
        /\ features = features0
        /\ modelCalls = 0
        /\ attempts = 0
        /\ changed = 0

\* The case of C22: the operator picked "done" as the first choice on a
\* list of two different features, with attempts to spare.
C22_Witness ==
    /\ lpc = "done"
    /\ lastOp.op = "choose_done"
    /\ iters = 1
    /\ max_attempts = 2
    /\ Len(features0) = 2
    /\ features0[1] # features0[2]
    /\ features = features0

\* ------------------------------------------ understand_intent, create_spec

NoExc == [cls |-> "none", msg |-> <<>>]
NoSpec ==
    [name |-> <<>>, description |-> <<>>, features |-> <<>>,
     structure |-> [components |-> <<>>]]
\* The content standing for a file that does not exist.
NoFile == <<"absent">>

\* An exception of class k as the failing call raises it, str(e) being the
\* text m; and the same with a plain text.
RaisedWith(k, m) == [cls |-> k, msg |-> <<m>>]
Raised(k) == RaisedWith(k, "cause")

\* Characters of project names (a letter in each case, a space and the
\* path separator), and str.lower() and the replace(' ', '_') of line 182
\* on them.
NameChars == {"A", "a", " ", "/"}
UpperCase == <<"A", "M">>
LowerCase == <<"a", "m">>
LowerChar(c) ==
    IF \E i \in DOMAIN UpperCase : UpperCase[i] = c
    THEN LowerCase[CHOOSE i \in DOMAIN UpperCase : UpperCase[i] = c]
    ELSE c
Lower(name) == [i \in 1..Len(name) |-> LowerChar(name[i])]
ReplaceSpace(name) ==
    [i \in 1..Len(name) |-> IF name[i] = " " THEN "_" ELSE name[i]]

\* os.path.join(a, b) for a directory name a and a non-empty b: b alone
\* when b is absolute, else a, the separator and b.
PathJoin(a, b) == IF Head(b) = "/" THEN b ELSE <<a, "/">> \o b

\* os.path.join("specs", f"{spec.name.lower().replace(' ', '_')}_spec.json")
\* (line 182), as the sequence of its parts.
SpecFile(name) ==
    PathJoin("specs", ReplaceSpace(Lower(name)) \o <<"_spec.json">>)

\* The file system resolving a path for open (line 183): a run of
\* separators counts as one.
RECURSIVE Canon(_)
Canon(path) ==
    IF Len(path) < 2 THEN path
    ELSE IF path[1] = "/" /\ path[2] = "/" THEN Canon(Tail(path))
    ELSE <<Head(path)>> \o Canon(Tail(path))
\* The directory a path names its file in: the path up to and including
\* its last separator.
ParentDir(path) ==
    LET seps == {i \in DOMAIN path : path[i] = "/"}
    IN  IF seps = {} THEN <<>>
        ELSE SubSeq(path, 1, CHOOSE i \in seps : \A j \in seps : j <= i)
\* Whether that directory exists: the root does, specs/ as dirExists tells,
\* and there is no other directory.
ParentExists(path, specsExists) ==
    \/ ParentDir(Canon(path)) = <<"/">>
    \/ ParentDir(Canon(path)) = <<"specs", "/">> /\ specsExists

Names == SeqsUpTo(NameChars, MaxNameLen) \ {<<>>}
\* The characters json.dumps escapes with a backslash.
Quote == "\""
Backslash == "\\"
\* ProjectSpec.features values: texts as sequences of characters.
FeatureLists == {<<>>, <<<<"a">>>>, <<<<"a">>, <<Quote, Backslash>>>>}
\* ProjectStructure.components values (models.py 34-44); pages, api_routes
\* and database are lists of records of strings like it and are left out.
Components ==
    [name : {<<"c">>}, description : {<<"d">>}, is_client : BOOLEAN]
Structures == [components : {<<>>} \cup {<<c>> : c \in Components}]
\* The ProjectSpec values the model returns.
ModelSpecs ==
    [name : Names, description : {<<"d">>}, features : FeatureLists,
     structure : Structures]
\* The Intent values the model returns.
ModelIntents == SeqsUpTo(RawTexts, 1)
\* The files create_spec can name, each by its resolved path.
SpecFiles == {Canon(SpecFile(n)) : n \in Names}

\* JSON text is a sequence of tokens: punctuation, true/false, and the
\* characters of strings one by one (white space, which indent=2 adds and
\* json.load skips, is left out).
RECURSIVE Flatten(_)
Flatten(ss) == IF ss = <<>> THEN <<>> ELSE Head(ss) \o Flatten(Tail(ss))

\* json's encoding of a str: quoted, with quotes and backslashes escaped.
EscapeChar(c) ==
    IF c \in {Quote, Backslash} THEN <<Backslash, c>> ELSE <<c>>
JsonStr(str) ==
    <<Quote>> \o Flatten([i \in 1..Len(str) |-> EscapeChar(str[i])])
              \o <<Quote>>
\* json's encoding of a bool.
MutJsonBool(b) == <<"true">>
JsonBool(b) == IF b THEN <<"true">> ELSE <<"false">>
\* json's encoding of a list, from the encodings of its items.
JsonArray(items) ==
    <<"[">> \o Flatten([i \in 1..Len(items) |->
                          IF i < Len(items) THEN items[i] \o <<",">>
                          ELSE items[i]])
           \o <<"]">>
\* One "key": value member of an object.
JsonMember(key, val) == JsonStr(<<key>>) \o <<":">> \o val

\* Component.model_dump() and ProjectStructure.model_dump(), encoded.
JsonComponent(c) ==
    <<"{">> \o JsonMember("name", JsonStr(c.name)) \o <<",">>
           \o JsonMember("description", JsonStr(c.description)) \o <<",">>
           \o JsonMember("is_client", JsonBool(c.is_client))
           \o <<"}">>
JsonStructure(st) ==
    <<"{">> \o JsonMember("components",
                          JsonArray([i \in 1..Len(st.components) |->
                                        JsonComponent(st.components[i])]))
           \o <<"}">>

\* json.dump(spec.model_dump(), f, indent=2) (line 184): the chunks written,
\* in order.
Dump(sp) ==
    << <<"{">>,
       JsonMember("name", JsonStr(sp.name)) \o <<",">>,
       JsonMember("description", JsonStr(sp.description)) \o <<",">>,
       JsonMember("features",
                  JsonArray([i \in 1..Len(sp.features) |->
                                JsonStr(sp.features[i])])) \o <<",">>,
       JsonMember("structure", JsonStructure(sp.structure)),
       <<"}">> >>

\* json.load on a text and ProjectSpec(**data) on its result: each reader
\* takes the tokens that start with its value and gives the value and the
\* tokens after it.
RECURSIVE ReadChars(_, _)
ReadChars(t, acc) ==
    IF t[1] = Quote THEN [val |-> acc, rest |-> Tail(t)]
    ELSE IF t[1] = Backslash
         THEN ReadChars(Tail(Tail(t)), Append(acc, t[2]))
         ELSE ReadChars(Tail(t), Append(acc, t[1]))
ReadString(t) == ReadChars(Tail(t), <<>>)
ReadBool(t) == [val |-> t[1] = "true", rest |-> Tail(t)]
\* The tokens after `"key":`.
AfterKey(t) == Tail(ReadString(t).rest)
\* The tokens after a separating comma, if there is one.
AfterComma(t) == IF t[1] = "," THEN Tail(t) ELSE t

RECURSIVE ReadStrings(_, _)
ReadStrings(t, acc) ==
    IF t[1] = "]" THEN [val |-> acc, rest |-> Tail(t)]
    ELSE LET item == ReadString(AfterComma(t))
         IN  ReadStrings(item.rest, Append(acc, item.val))
ReadStringList(t) == ReadStrings(Tail(t), <<>>)

ReadComponent(t) ==
    LET n == ReadString(AfterKey(Tail(t)))
        d == ReadString(AfterKey(AfterComma(n.rest)))
        c == ReadBool(AfterKey(AfterComma(d.rest)))
    IN  [val |-> [name |-> n.val, description |-> d.val, is_client |-> c.val],
         rest |-> Tail(c.rest)]
RECURSIVE ReadComponents(_, _)
ReadComponents(t, acc) ==
    IF t[1] = "]" THEN [val |-> acc, rest |-> Tail(t)]
    ELSE LET item == ReadComponent(AfterComma(t))
         IN  ReadComponents(item.rest, Append(acc, item.val))
ReadStructure(t) ==
    LET cs == ReadComponents(Tail(AfterKey(Tail(t))), <<>>)
    IN  [val |-> [components |-> cs.val], rest |-> Tail(cs.rest)]

\* The ProjectSpec read back from a spec file's content.
Load(content) ==
    LET n == ReadString(AfterKey(Tail(content)))
        d == ReadString(AfterKey(AfterComma(n.rest)))
        f == ReadStringList(AfterKey(AfterComma(d.rest)))
        st == ReadStructure(AfterKey(AfterComma(f.rest)))
    IN  [name |-> n.val, description |-> d.val, features |-> f.val,
         structure |-> st.val]

\* A spec file left by an earlier run.
OldContent ==
    Flatten(Dump([name |-> <<"o", "l", "d">>, description |-> <<"d">>,
                  features |-> <<>>, structure |-> [components |-> <<>>]]))

\* The handlers of lines 39-40 and 190-191: `except Exception as e` raises
\* ValueError(f"<prefix>: {str(e)}"); any other exception passes unchanged.
StagePrefix(m) ==
    IF m = "understand_intent" THEN "Failed to understand intent: "
    ELSE "Failed to create specification: "

MutWrapped(m, e) ==
    IF e.cls = "OSError"
    THEN [cls |-> "ValueError", msg |-> <<StagePrefix(m)>> \o e.msg]
    ELSE e
Wrapped(m, e) ==
    IF IsException(e.cls)
    THEN [cls |-> "ValueError", msg |-> <<StagePrefix(m)>> \o e.msg]
    ELSE e

\* An exception leaves the try block and reaches the caller through the handler.
Fails(e, at) ==
    /\ thrown' = e
    /\ failedAt' = at
    /\ mexc' = Wrapped(method, e)
    /\ mpc' = "raised"

\* The refinement loop, not running.
IdleLoop ==
    /\ lpc = "idle"
    /\ features = <<>>
    /\ attempts = 0
    /\ max_attempts = 0
    /\ new_feature = ""
    /\ enhanced_feature = ""
    /\ lexc = "none"
    /\ iters = 0
    /\ skipped = 0
    /\ modelCalls = 0
    /\ typed = ""
    /\ lastOp = NoOp
    /\ features0 = <<>>
    /\ changed = 0

InitMaster ==
    /\ IdleLoop
    /\ IdleCode
    /\ method \in {"understand_intent", "create_spec"}
    /\ mpc = "call_ai"
    /\ spec = NoSpec
    /\ \E old \in SpecFiles \cup {<<>>} :
          files = [f \in SpecFiles |-> IF f = old THEN OldContent ELSE NoFile]
    /\ dirExists \in BOOLEAN
    /\ \A f \in SpecFiles : files[f] # NoFile => ParentExists(f, dirExists)
    /\ spec_file = <<>>
    /\ buffer = <<>>
    /\ mexc = NoExc
    /\ mret = FALSE
    /\ thrown = NoExc
    /\ failedAt = "none"
    /\ dir0 = dirExists
    /\ files0 = files

\* understand_intent, lines 19-40: the model call returns a parsed Intent
\* or raises.
UnderstandIntent ==
    /\ UNCHANGED <<loopVars, codeVars>>
    /\ method = "understand_intent"
    /\ mpc = "call_ai"
    /\ \/ /\ \E intent \in ModelIntents : TRUE
          /\ mpc' = "returned"
          /\ mret' = TRUE
          /\ UNCHANGED <<mexc, thrown, failedAt>>
       \/ /\ \E k \in ExcKinds : Fails(Raised(k), "call_ai")
          /\ UNCHANGED mret
    /\ UNCHANGED <<method, spec, dirExists, files, spec_file, buffer, dir0,
                   files0>>

\* create_spec, lines 156-176: the model call returns a ProjectSpec or raises.
MutCreateSpecCallAI ==
    /\ UNCHANGED <<loopVars, codeVars>>
    /\ method = "create_spec"
    /\ mpc = "call_ai"
    /\ dirExists' = TRUE
    /\ \/ /\ \E sp \in ModelSpecs : spec' = sp
          /\ mpc' = "makedirs"
          /\ UNCHANGED <<mexc, thrown, failedAt>>
       \/ /\ \E k \in ExcKinds : Fails(Raised(k), "call_ai")
          /\ UNCHANGED spec
    /\ UNCHANGED <<method, files, spec_file, buffer, mret, dir0, files0>>
CreateSpecCallAI ==
    /\ UNCHANGED <<loopVars, codeVars>>
    /\ method = "create_spec"
    /\ mpc = "call_ai"
    /\ \/ /\ \E sp \in ModelSpecs : spec' = sp
          /\ mpc' = "makedirs"
          /\ UNCHANGED <<mexc, thrown, failedAt>>
       \/ /\ \E k \in ExcKinds : Fails(Raised(k), "call_ai")
          /\ UNCHANGED spec
    /\ UNCHANGED <<method, dirExists, files, spec_file, buffer, mret, dir0,
                   files0>>

\* Line 179: os.makedirs("specs", exist_ok=True) creates the directory, or
\* raises OSError when it has to create it and cannot; an existing
\* directory is accepted as it is.
MakeDirs ==
    /\ UNCHANGED <<loopVars, codeVars>>
    /\ mpc = "makedirs"
    /\ \/ /\ dirExists' = TRUE
          /\ mpc' = "open"
          /\ UNCHANGED <<mexc, thrown, failedAt>>
       \/ /\ ~dirExists
          /\ Fails(Raised("OSError"), mpc)
          /\ UNCHANGED dirExists
    /\ UNCHANGED <<method, spec, files, spec_file, buffer, mret, dir0, files0>>

\* Lines 182-183: the path is computed and open(spec_file, "w") creates the
\* file or truncates it when its directory exists, or raises OSError (so
\* FileNotFoundError for a missing directory) and leaves it alone.
OpenSpecFile ==
    /\ UNCHANGED <<loopVars, codeVars>>
    /\ mpc = "open"
    /\ spec_file' = SpecFile(spec.name)
    /\ \/ /\ ParentExists(SpecFile(spec.name), dirExists)
          /\ files' = [files EXCEPT ![Canon(SpecFile(spec.name))] = <<>>]
          /\ mpc' = "dump"
          /\ UNCHANGED <<mexc, thrown, failedAt>>
       \/ /\ Fails(Raised("OSError"), mpc)
          /\ UNCHANGED files
    /\ UNCHANGED <<method, spec, dirExists, buffer, mret, dir0, files0>>

\* Line 184: json.dump writes the serialized spec, chunk by chunk, into the
\* buffer of the text file f; the text stays below the buffer's size, so
\* nothing reaches the disk and no write can fail before the file is closed.
JsonDump ==
    /\ UNCHANGED <<loopVars, codeVars>>
    /\ mpc = "dump"
    /\ buffer' = buffer \o Flatten(Dump(spec))
    /\ mpc' = "close"
    /\ UNCHANGED <<method, spec, dirExists, files, spec_file, mexc, mret,
                   thrown, failedAt, dir0, files0>>

\* Line 183, the end of the with block: closing f flushes the buffer to the
\* file; a failing flush raises OSError and leaves on disk the part of the
\* text that was written before the failure, possibly nothing.
CloseSpecFile ==
    /\ UNCHANGED <<loopVars, codeVars>>
    /\ mpc = "close"
    /\ buffer' = <<>>
    /\ \/ /\ files' = [files EXCEPT ![Canon(spec_file)] = @ \o buffer]
          /\ mpc' = "print"
          /\ UNCHANGED <<mexc, thrown, failedAt>>
       \/ /\ \E n \in 0..(Len(buffer) - 1) :
                files' = [files EXCEPT ![Canon(spec_file)] =
                                       @ \o SubSeq(buffer, 1, n)]
          /\ Fails(Raised("OSError"), mpc)
    /\ UNCHANGED <<method, spec, dirExists, spec_file, mret, dir0, files0>>

\* Lines 186-188: the path of the saved file is printed and the spec
\* returned.
ReturnSpec ==
    /\ UNCHANGED <<loopVars, codeVars>>
    /\ mpc = "print"
    /\ mpc' = "returned"
    /\ mret' = TRUE
    /\ UNCHANGED <<method, spec, dirExists, files, spec_file, buffer, mexc,
                   thrown, failedAt, dir0, files0>>

NextMaster ==
    \/ UnderstandIntent
    \/ CreateSpecCallAI
    \/ MakeDirs
    \/ OpenSpecFile
    \/ JsonDump
    \/ CloseSpecFile
    \/ ReturnSpec

SpecMaster == InitMaster /\ [][NextMaster]_vars

\* ------------------------------- claims on understand_intent, create_spec

\* The message of the ValueError a stage raises for the cause e.
ExpectedMessage(m, e) ==
    << IF m = "understand_intent" THEN "Failed to understand intent: "
       ELSE "Failed to create specification: " >> \o e.msg

ReachedCallerWrapped ==
    /\ mexc.cls = "ValueError"
    /\ mexc.msg = ExpectedMessage(method, thrown)

\* C6: when the model call inside create_spec raises, nothing is written:
\* specs/ is not created and every spec file is as it was at the call.
C6_ModelFailureWritesNothing ==
    (method = "create_spec" /\ failedAt = "call_ai") =>
        /\ dirExists = dir0
        /\ files = files0
        /\ spec_file = <<>>

\* The case of C6: the model call raised with no specs/ directory present.
C6_Witness ==
    /\ method = "create_spec"
    /\ failedAt = "call_ai"
    /\ mpc = "raised"
    /\ ~dir0
    /\ \A f \in SpecFiles : files[f] = NoFile

\* C7: whenever create_spec fails, each spec file is unchanged (absent if
\* it was absent) or holds the complete serialized spec.  Refuted by the
\* code: open(spec_file, "w") truncates the file, and a flush that fails
\* when the with block closes it leaves a proper prefix of the text.
C7_NoPartialFileOnFailure ==
    (method = "create_spec" /\ mpc = "raised") =>
        \A f \in SpecFiles : files[f] = files0[f] \/ files[f] = Flatten(Dump(spec))

\* C8 as stated: whatever is raised inside understand_intent or create_spec
\* reaches the caller as the stage's wrapped ValueError.  Refuted by an
\* exception that does not derive from Exception (KeyboardInterrupt), which
\* `except Exception` lets through unchanged.
C8_AnyExceptionWrapped == mpc = "raised" => ReachedCallerWrapped

\* C8 amended: an exception deriving from Exception that is raised inside
\* understand_intent or create_spec (model call, directory creation, file
\* write) reaches the caller only as a ValueError whose message is the
\* stage's prefix followed by the cause.
C8_ExceptionWrapped ==
    (mpc = "raised" /\ thrown.cls \in ExceptionDerived) => ReachedCallerWrapped

\* The case of C8: closing the spec file raised OSError in create_spec.
C8_Witness ==
    /\ method = "create_spec"
    /\ mpc = "raised"
    /\ failedAt = "close"
    /\ thrown.cls = "OSError"
    /\ mexc.cls = "ValueError"

\* The file name the claim gives for the project name n, character by
\* character: lower case for a letter, an underscore for a space.
NormalizedAs(n, out) ==
    /\ Len(out) = Len(n)
    /\ \A i \in 1..Len(n) :
          /\ n[i] = " " => out[i] = "_"
          /\ n[i] \in {"A", "a"} => out[i] = "a"
          /\ out[i] \notin {" ", "A"}

\* C15: the path create_spec writes is a function of the project name only:
\* specs/ followed by the name in lower case with every space replaced by
\* an underscore, followed by _spec.json ("My App" gives
\* specs/my_app_spec.json); and specs/ exists by the time the file is
\* opened, created by the call when it was absent.  Refuted by the code:
\* for a name that begins with the path separator, os.path.join drops
\* "specs" and the path is an absolute one outside specs/.
C15_SpecPathFromName ==
    /\ spec_file # <<>> =>
          /\ Len(spec_file) = Len(spec.name) + 3
          /\ spec_file[1] = "specs"
          /\ spec_file[2] = "/"
          /\ spec_file[Len(spec_file)] = "_spec.json"
          /\ NormalizedAs(spec.name,
                          SubSeq(spec_file, 3, Len(spec_file) - 1))
          /\ dirExists
          /\ \A f \in SpecFiles :
                f # Canon(spec_file) => files[f] = files0[f]
    /\ (\E f \in SpecFiles : files[f] # files0[f]) => spec_file # <<>>
    /\ SpecFile(<<"M", "y", " ", "A", "p", "p">>)
          = <<"specs", "/", "m", "y", "_", "a", "p", "p", "_spec.json">>

\* C16: after a successful create_spec the spec file holds the complete
\* serialization of the ProjectSpec returned, and loading it gives a
\* ProjectSpec equal to the one returned.
C16_SpecFileRoundTrips ==
    (method = "create_spec" /\ mpc = "returned") =>
        /\ mret
        /\ files[Canon(spec_file)] = Flatten(Dump(spec))
        /\ Load(files[Canon(spec_file)]) = spec

\* The case of C16: a spec with two features, one of them with characters
\* that need escaping, and a server component, written over an older file.
C16_Witness ==
    /\ method = "create_spec"
    /\ mpc = "returned"
    /\ Len(spec.features) = 2
    /\ spec.features[2] = <<Quote, Backslash>>
    /\ Len(spec.structure.components) = 1
    /\ ~spec.structure.components[1].is_client
    /\ files0[Canon(spec_file)] = OldContent
    /\ Load(files[Canon(spec_file)]) = spec

\* ------------------------------------------------------------- CodeAgent

\* Exceptions the agent's invoke is seen to raise: one deriving from
\* Exception, with either text, and one that does not.
AgentExcs ==
    {RaisedWith("APIError", m) : m \in ExcTexts}
        \cup {Raised("KeyboardInterrupt")}
\* Results of analyze_codebase and of _generate_implementation_plan.
AnalysisVals == {"A1", "A2"}
CtxVals == {"P1", "P2"}

\* bool(v) of a value a plan carries; "none" is a missing key (None).
Truthy(v) == v \notin {"none", ""}

\* The dictionaries a planning call returns: file_path and content, or a
\* files list of {path, content} entries; hasFiles is FALSE when the key
\* files is missing.
PathNames == <<"f1", "f2", "f3", "f4">>
\* Entry i of a files list names its own file, or lacks its path or content.
FileEntriesAt(i) == [path : {"", PathNames[i]}, content : {"none", "ca"}]
FilesLists ==
    UNION { {fl \in [1..k -> UNION {FileEntriesAt(i) : i \in 1..k}] :
                \A i \in 1..k : fl[i] \in FileEntriesAt(i)} : k \in 0..MaxFiles }
SinglePlans ==
    [file_path : {"none", "pa"}, content : {"", "ca"},
     hasFiles : {FALSE}, files : {<<>>}]
FilesPlans ==
    [file_path : {"none"}, content : {"none"},
     hasFiles : {TRUE}, files : FilesLists]
PlanResults == SinglePlans \cup FilesPlans

\* Lines 353-358 and 384-389: the edit a component or route plan leads to.
MutSingleEdit(plan) ==
    IF Truthy(plan.file_path) \/ Truthy(plan.content)
    THEN <<[path |-> plan.file_path, content |-> plan.content]>>
    ELSE <<>>
SingleEdit(plan) ==
    IF Truthy(plan.file_path) /\ Truthy(plan.content)
    THEN <<[path |-> plan.file_path, content |-> plan.content]>>
    ELSE <<>>

\* Lines 414-421 and 444-451: the edits a table or integration plan leads
\* to, in the order of its files list.
MutHasPathAndContent(f) == Truthy(f.path)
HasPathAndContent(f) == Truthy(f.path) /\ Truthy(f.content)
FilesEdits(plan) ==
    IF plan.hasFiles /\ plan.files # <<>>
    THEN SelectSeq(plan.files, HasPathAndContent)
    ELSE <<>>

Edits(kind, plan) ==
    IF kind \in {"component", "route"} THEN SingleEdit(plan) ELSE FilesEdits(plan)

\* Lines 465-468: the phases of implement_features after the plan.
MutPhaseOrder == <<"component", "table", "route", "integration">>
PhaseOrder == <<"component", "route", "table", "integration">>

\* The number of planning calls of a phase: one per element of the spec's
\* list (lines 329, 362, 393), one for the integration (line 425).
Units(kind) ==
    CASE kind = "component" -> nComp
      [] kind = "route" -> nRoute
      [] kind = "table" -> nTable
      [] OTHER -> 1

MinOf(S) == CHOOSE x \in S : \A y \in S : x <= y

\* The unit planned after unit i of phase p; phase Len(PhaseOrder)+1 is the
\* end of implement_features.
MutNextUnit(p, i) ==
    LET later == {q \in (p + 1)..Len(PhaseOrder) : Units(PhaseOrder[q]) > 0}
    IN  IF later = {}
        THEN [phase |-> Len(PhaseOrder) + 1, unit |-> 0]
        ELSE [phase |-> MinOf(later), unit |-> 1]
NextUnit(p, i) ==
    IF p >= 1 /\ i < Units(PhaseOrder[p])
    THEN [phase |-> p, unit |-> i + 1]
    ELSE LET later == {q \in (p + 1)..Len(PhaseOrder) : Units(PhaseOrder[q]) > 0}
         IN  IF later = {}
             THEN [phase |-> Len(PhaseOrder) + 1, unit |-> 0]
             ELSE [phase |-> MinOf(later), unit |-> 1]

\* Lines 470-471 and 489-490: the value both entry points return.
SuccessText == "Features implemented successfully"

\* Control moves to the unit after unit i of phase p, or to the return.
MutGoOn(p, i) ==
    /\ phase' = Len(PhaseOrder) + 1
    /\ unit' = 0
    /\ cpc' = "done"
    /\ cret' = SuccessText
GoOn(p, i) ==
    LET n == NextUnit(p, i)
    IN  /\ phase' = n.phase
        /\ unit' = n.unit
        /\ cpc' = IF n.phase > Len(PhaseOrder) THEN "done" ELSE "unit_plan"
        /\ cret' = IF n.phase > Len(PhaseOrder) THEN SuccessText ELSE cret

\* `raise` in the handlers of lines 290-292, 473-475 and 492-494.
Reraise(e) == e

\* The MarkupError console.print raises for the first closing tag of the
\* message; its own text names the tag again, and the tag's position in the
\* printed line, for which the line stands here.
MarkupError(line, msg) ==
    LET i == CHOOSE i \in DOMAIN msg :
                /\ msg[i] \in MarkupTags
                /\ \A j \in 1..(i - 1) : msg[j] \notin MarkupTags
    IN  [cls |-> "MarkupError",
         msg |-> <<"closing tag ", msg[i], " at position in ", line,
                   " doesn't match any open tag">>]

\* The handlers an exception passes on the way out, innermost first, each
\* by the line it prints: analyze_codebase's when the call was its own,
\* implement_features' when it ran inside it, and transform_template's when
\* that was the entry point.
HandlerLines(at) ==
    (IF at \in {"t_analyze", "analyze"}
     THEN <<"Error analyzing codebase">> ELSE <<>>)
    \o (IF at # "t_analyze"
        THEN <<"Error implementing features">> ELSE <<>>)
    \o (IF entry = "transform_template"
        THEN <<"Error transforming template">> ELSE <<>>)

\* One handler, `except Exception as e: self.console.print(f"[red]<line>:
\* {str(e)}[/red]"); raise`, met by the exception st.exc with st.printed
\* printed so far.  It does not see an exception that derives from
\* BaseException only; a print that raises leaves the handler with its
\* MarkupError in place of e, nothing printed.
Handler(line, st) ==
    IF ~IsException(st.exc.cls) THEN st
    ELSE IF HasMarkup(st.exc.msg)
         THEN [exc |-> MarkupError(line, st.exc.msg), printed |-> st.printed]
         ELSE [exc |-> Reraise(st.exc), printed |-> Append(st.printed, line)]

\* The handlers `lines`, one after the other.
RECURSIVE ThroughHandlers(_, _)
ThroughHandlers(lines, st) ==
    IF lines = <<>> THEN st
    ELSE ThroughHandlers(Tail(lines), Handler(Head(lines), st))

\* The agent call `call` raises: the exception goes through the handlers to
\* the caller and nothing else runs.
CallRaises(call) ==
    /\ log' = Append(log, [call EXCEPT !.ok = FALSE])
    /\ \E e \in AgentExcs :
          LET out == ThroughHandlers(HandlerLines(cpc),
                                     [exc |-> e, printed |-> <<>>])
          IN  /\ cthrown' = e
              /\ cexc' = out.exc
              /\ printed' = out.printed
    /\ cpc' = "raised"
    /\ issued' = IF keepPlans /\ call.call = "edit"
                 THEN Append(issued, Head(pending)) ELSE issued
    /\ UNCHANGED <<entry, nComp, nRoute, nTable, phase, unit, pending,
                   analysis, ctx, applied, noEdit, cret, keepPlans,
                   lastPlan>>

\* One agent.invoke: what it asks for, the unit it is about, and the
\* analysis or implementation context its prompt carries ("" for none).
\* ok turns FALSE in the log when the call raised instead of returning;
\* ret is the analysis or the implementation context the call returned.
MutCall(c, kind, u, arg) ==
    [call |-> c, kind |-> kind, unit |-> u,
     arg |-> IF c = "plan" THEN analysis ELSE arg, ok |-> TRUE, ret |-> ""]
Call(c, kind, u, arg) ==
    [call |-> c, kind |-> kind, unit |-> u, arg |-> arg, ok |-> TRUE,
     ret |-> ""]

\* The call as the log keeps it once it returned r.
Returned(call, r) == [call EXCEPT !.ret = r]

\* What C5 calls a plan with nothing to edit: no file_path/content pair for
\* a component or a route, a missing or empty files list for a table or the
\* integration.
NothingToEdit(kind, plan) ==
    IF kind \in {"component", "route"}
    THEN ~(Truthy(plan.file_path) /\ Truthy(plan.content))
    ELSE ~plan.hasFiles \/ plan.files = <<>>

InitCode ==
    /\ IdleLoop
    /\ IdleMaster
    /\ entry \in {"implement_features", "transform_template"}
    /\ cpc = IF entry = "transform_template" THEN "t_analyze" ELSE "analyze"
    /\ nComp \in 0..MaxUnits
    /\ nRoute \in 0..MaxUnits
    /\ nTable \in 0..MaxUnits
    /\ nComp + nRoute + nTable <= MaxUnits
    /\ phase = 0
    /\ unit = 0
    /\ pending = <<>>
    /\ analysis = ""
    /\ ctx = ""
    /\ log = <<>>
    /\ applied = 0
    /\ noEdit = {}
    /\ cexc = NoExc
    /\ cthrown = NoExc
    /\ cret = ""
    /\ printed = <<>>
    /\ keepPlans = FALSE
    /\ lastPlan = <<>>
    /\ issued = <<>>

\* transform_template, lines 480-484: its own analyze_codebase call
\* (lines 271-292) before implement_features.
TransformAnalyze ==
    /\ UNCHANGED <<loopVars, masterVars>>
    /\ cpc = "t_analyze"
    /\ \/ /\ \E a \in AnalysisVals :
                /\ analysis' = a
                /\ log' = Append(log,
                                 Returned(Call("analyze", "none", 0, ""), a))
          /\ cpc' = "analyze"
          /\ UNCHANGED <<entry, nComp, nRoute, nTable, phase, unit, pending,
                         ctx, applied, noEdit, cexc, cthrown, cret, printed,
                         keepPlans, lastPlan, issued>>
       \/ CallRaises(Call("analyze", "none", 0, ""))

\* implement_features, lines 455-457: analyze_codebase (lines 271-292).
Analyze ==
    /\ UNCHANGED <<loopVars, masterVars>>
    /\ cpc = "analyze"
    /\ \/ /\ \E a \in AnalysisVals :
                /\ analysis' = a
                /\ log' = Append(log,
                                 Returned(Call("analyze", "none", 0, ""), a))
          /\ cpc' = "plan"
          /\ UNCHANGED <<entry, nComp, nRoute, nTable, phase, unit, pending,
                         ctx, applied, noEdit, cexc, cthrown, cret, printed,
                         keepPlans, lastPlan, issued>>
       \/ CallRaises(Call("analyze", "none", 0, ""))

\* Lines 460-462: _generate_implementation_plan(analysis) (lines 294-325).
GeneratePlan ==
    /\ UNCHANGED <<loopVars, masterVars>>
    /\ cpc = "plan"
    /\ \/ /\ \E c \in CtxVals :
                /\ ctx' = c
                /\ log' = Append(log,
                                 Returned(Call("generate_plan", "none", 0,
                                               analysis), c))
          /\ GoOn(0, 0)
          /\ UNCHANGED <<entry, nComp, nRoute, nTable, pending, analysis,
                         applied, noEdit, cexc, cthrown, printed, keepPlans,
                         lastPlan, issued>>
       \/ CallRaises(Call("generate_plan", "none", 0, analysis))

\* The planning call of one unit (lines 330-351, 363-382, 394-412, 425-442)
\* and what follows it up to the next agent call.
PlanUnit ==
    /\ UNCHANGED <<loopVars, masterVars>>
    /\ cpc = "unit_plan"
    /\ LET kind == PhaseOrder[phase]
           call == Call("plan", kind, unit, ctx)
       IN  \/ /\ log' = Append(log, call)
              /\ \E plan \in PlanResults :
                    /\ pending' = Edits(kind, plan)
                    /\ noEdit' = IF NothingToEdit(kind, plan)
                                 THEN noEdit \cup {<<kind, unit>>} ELSE noEdit
                    /\ lastPlan' = IF keepPlans THEN <<plan>> ELSE <<>>
                    /\ IF Edits(kind, plan) = <<>>
                       THEN GoOn(phase, unit)
                       ELSE /\ cpc' = "unit_edit"
                            /\ UNCHANGED <<phase, unit, cret>>
              /\ issued' = <<>>
              /\ UNCHANGED <<entry, nComp, nRoute, nTable, analysis, ctx,
                             applied, cexc, cthrown, printed, keepPlans>>
           \/ CallRaises(call)

\* _execute_file_edit (lines 258-269) for the next edit of the current plan.
EditFile ==
    /\ UNCHANGED <<loopVars, masterVars>>
    /\ cpc = "unit_edit"
    /\ LET kind == PhaseOrder[phase]
           call == Call("edit", kind, unit, "")
       IN  \/ /\ log' = Append(log, call)
              /\ applied' = applied + 1
              /\ pending' = Tail(pending)
              /\ issued' = IF keepPlans
                           THEN Append(issued, Head(pending)) ELSE issued
              /\ IF Tail(pending) = <<>>
                 THEN GoOn(phase, unit)
                 ELSE UNCHANGED <<cpc, phase, unit, cret>>
              /\ UNCHANGED <<entry, nComp, nRoute, nTable, analysis, ctx,
                             noEdit, cexc, cthrown, printed, keepPlans,
                             lastPlan>>
           \/ CallRaises(call)

NextCode ==
    \/ TransformAnalyze
    \/ Analyze
    \/ GeneratePlan
    \/ PlanUnit
    \/ EditFile

SpecCode == InitCode /\ [][NextCode]_vars

\* implement_features called directly, with the result of every planning
\* call and the edits issued from it kept in the history.
InitPlans ==
    /\ IdleLoop
    /\ IdleMaster
    /\ entry = "implement_features"
    /\ cpc = "analyze"
    /\ nComp \in 0..MaxPlanUnits
    /\ nRoute \in 0..MaxPlanUnits
    /\ nTable \in 0..MaxPlanUnits
    /\ nComp + nRoute + nTable <= MaxPlanUnits
    /\ phase = 0
    /\ unit = 0
    /\ pending = <<>>
    /\ analysis = ""
    /\ ctx = ""
    /\ log = <<>>
    /\ applied = 0
    /\ noEdit = {}
    /\ cexc = NoExc
    /\ cthrown = NoExc
    /\ cret = ""
    /\ printed = <<>>
    /\ keepPlans = TRUE
    /\ lastPlan = <<>>
    /\ issued = <<>>

NextPlans ==
    \/ Analyze
    \/ GeneratePlan
    \/ PlanUnit
    \/ EditFile

SpecPlans == InitPlans /\ [][NextPlans]_vars

\* The run with every call answered: the agent's invoke blocks the single
\* thread until it returns or raises, and the code between two calls always
\* runs on to the next one.
SpecCodeFair == InitCode /\ [][NextCode]_vars /\ WF_vars(NextCode)

\* ------------------------------------------------- claims on the CodeAgent

\* The place of a call in the order analyze, plan, components, routes,
\* database, integration.
CallRank(c) ==
    CASE c.call = "analyze" -> 1
      [] c.call = "generate_plan" -> 2
      [] c.kind = "component" -> 3
      [] c.kind = "route" -> 4
      [] c.kind = "table" -> 5
      [] OTHER -> 6

EditsOf(kind) == {i \in DOMAIN log : log[i].call = "edit" /\ log[i].kind = kind}

\* C1: the calls of a run come in the order analyze, plan, components,
\* routes, database, integration: no call is issued after a call of a later
\* phase, and an analyze call comes before the plan call.
C1_PhaseOrder ==
    /\ \A a, b \in DOMAIN log : a < b => CallRank(log[a]) <= CallRank(log[b])
    /\ \A b \in DOMAIN log :
          log[b].call = "generate_plan" =>
              \E a \in 1..(b - 1) : log[a].call = "analyze"

\* The case of C1: a run that returned after planning and editing in every
\* phase.
C1_Witness ==
    /\ cpc = "done"
    /\ entry = "implement_features"
    /\ \A k \in {"component", "route", "table", "integration"} : EditsOf(k) # {}

\* C5: a unit whose planning call returned nothing to edit gets no file-edit
\* call, and the run goes on with the next unit: the call issued after its
\* planning call, if any, is the next planning call, and when none has been
\* issued yet the run is at the next unit's planning call or has returned.
C5_NoEditWithoutPlanFiles ==
    /\ \A i \in DOMAIN log :
          log[i].call = "edit" => <<log[i].kind, log[i].unit>> \notin noEdit
    /\ \A i \in DOMAIN log :
          (log[i].call = "plan" /\ <<log[i].kind, log[i].unit>> \in noEdit) =>
              IF i < Len(log)
              THEN /\ log[i + 1].call = "plan"
                   /\ <<log[i + 1].kind, log[i + 1].unit>> # <<log[i].kind, log[i].unit>>
              ELSE /\ cpc \in {"unit_plan", "done"}
                   /\ cpc = "unit_plan" =>
                         <<PhaseOrder[phase], unit>> # <<log[i].kind, log[i].unit>>

\* The case of C5: a run that returned with a component, a table and the
\* integration planned without anything to edit, and another component edited.
C5_Witness ==
    /\ cpc = "done"
    /\ <<"component", 1>> \in noEdit
    /\ <<"table", 1>> \in noEdit
    /\ <<"integration", 1>> \in noEdit
    /\ \E i \in EditsOf("component") : log[i].unit = 2

\* C9: once an agent call or a file edit has raised, the run is over: the
\* failing call is the last one issued, the caller gets the exception the
\* call raised, nothing is returned, and the edits that had returned before
\* it are all still counted as applied, no call having undone one.  Refuted
\* by the code: when the message of the exception holds a closing markup
\* tag, the print of the first handler raises MarkupError, and that is the
\* exception the caller gets.
C9_RaiseAborts ==
    /\ cthrown # NoExc =>
          /\ cpc = "raised"
          /\ cexc = cthrown
          /\ cret = ""
          /\ ~ENABLED NextCode
          /\ log # <<>> /\ ~log[Len(log)].ok
          /\ \A i \in 1..(Len(log) - 1) : log[i].ok
          /\ applied = Cardinality({i \in DOMAIN log :
                                      log[i].call = "edit" /\ log[i].ok})
    /\ \A i \in DOMAIN log :
          log[i].call \in {"analyze", "generate_plan", "plan", "edit"}
    /\ cthrown = NoExc => \A i \in DOMAIN log : log[i].ok

\* The places in the log of the calls of one kind.
CallsOf(c) == {i \in DOMAIN log : log[i].call = c}

\* C12: a run that got as far as the per-unit calls has issued exactly one
\* analyze call and exactly one plan call, and the plan call's prompt
\* carries what that analyze call returned.  Refuted by the code under
\* transform_template, which calls analyze_codebase itself before
\* implement_features calls it again.
C12_OneAnalyzeOnePlan ==
    cpc \in {"unit_plan", "unit_edit", "done"} =>
        /\ Cardinality(CallsOf("analyze")) = 1
        /\ Cardinality(CallsOf("generate_plan")) = 1
        /\ \A a \in CallsOf("analyze"), g \in CallsOf("generate_plan") :
              a < g /\ log[g].arg = log[a].ret

\* C13: every planning call of a run, the integration's included, carries
\* exactly the implementation context the run's one plan call returned,
\* whatever the planning and edit calls in between returned; and the
\* context the run holds is that value from the plan call on.
C13_ContextThreaded ==
    /\ Cardinality(CallsOf("generate_plan")) <= 1
    /\ \A i \in CallsOf("plan") :
          \E g \in CallsOf("generate_plan") :
              /\ g < i
              /\ log[g].ok
              /\ log[g].ret \in CtxVals
              /\ log[i].arg = log[g].ret
    /\ \A g \in CallsOf("generate_plan") : log[g].ok => ctx = log[g].ret

\* The case of C13: a run that returned after planning calls of all four
\* kinds, with edits in between, under the second context value.
C13_Witness ==
    /\ cpc = "done"
    /\ ctx = "P2"
    /\ applied >= 3
    /\ \A k \in {"component", "route", "table", "integration"} :
          \E i \in CallsOf("plan") : log[i].kind = k /\ log[i].arg = "P2"

\* The units of the spec in the order of their lists, phase by phase, with
\* the integration last.
RECURSIVE UnitsFrom(_, _)
UnitsFrom(kind, i) ==
    IF i > Units(kind) THEN <<>> ELSE <<<<kind, i>>>> \o UnitsFrom(kind, i + 1)
AllUnits ==
    UnitsFrom("component", 1) \o UnitsFrom("route", 1)
        \o UnitsFrom("table", 1) \o UnitsFrom("integration", 1)

IsPlanCall(c) == c.call = "plan"
\* The units the planning calls issued so far were about, in order.
PlannedUnits ==
    LET calls == SelectSeq(log, IsPlanCall)
    IN  [i \in 1..Len(calls) |-> <<calls[i].kind, calls[i].unit>>]

\* C14: the planning calls go through the components, the API routes and
\* the database tables in the order of their lists, one call per unit; every
\* file edit is issued after the planning call of its own unit and before
\* the planning call of the next one; and a run that returns has planned
\* every unit.
C14_OnePlanPerUnitInOrder ==
    /\ Len(PlannedUnits) <= Len(AllUnits)
    /\ \A i \in 1..Len(PlannedUnits) : PlannedUnits[i] = AllUnits[i]
    /\ \A i \in CallsOf("edit") :
          /\ i > 1
          /\ log[i - 1].call \in {"plan", "edit"}
          /\ log[i - 1].kind = log[i].kind
          /\ log[i - 1].unit = log[i].unit
    /\ cpc = "done" => PlannedUnits = AllUnits

\* The case of C14: a run that returned for a spec with two components and
\* a table, the first component and the table edited.
C14_Witness ==
    /\ cpc = "done"
    /\ nComp = 2
    /\ nTable = 1
    /\ \E i \in CallsOf("edit") : log[i].kind = "component" /\ log[i].unit = 1
    /\ \E i \in CallsOf("edit") : log[i].kind = "table"
    /\ <<"component", 2>> \in noEdit

\* A planning call for the unit u of the kind k was issued and returned.
PlannedOk(k, u) ==
    \E i \in CallsOf("plan") : log[i].kind = k /\ log[i].unit = u /\ log[i].ok

\* C17: every run ends, and ends in exactly one of two ways: it raises and
\* returns nothing, or it returns the success text, and then a planning
\* call has been issued for every component, API route and database table,
\* the integration call has returned and no call has raised.
C17_EndsRaisedOrComplete ==
    /\ <>(cpc \in {"done", "raised"})
    /\ [](cpc = "done" =>
            /\ cret = SuccessText
            /\ cexc = NoExc
            /\ \A k \in {"component", "route", "table"} :
                  \A u \in 1..Units(k) : PlannedOk(k, u)
            /\ PlannedOk("integration", 1)
            /\ \A i \in DOMAIN log : log[i].ok)
    /\ [](cpc = "raised" => (cret = "" /\ cexc # NoExc))
    /\ [](cpc \notin {"done", "raised"} => (cret = "" /\ cexc = NoExc))

\* The case of C17: a run that returned success for a spec with a component,
\* a route and a table.
C17_Witness ==
    /\ cpc = "done"
    /\ cret = SuccessText
    /\ nComp >= 1 /\ nRoute >= 1 /\ nTable >= 1
    /\ PlannedOk("integration", 1)

\* A value a plan carries under a key is there and is not empty.
NonEmpty(v) == v # "none" /\ v # ""

\* The entries of a files list that carry both a path and a content, in the
\* order of the list.
FullEntries(fl) ==
    LET idx == {i \in 1..Len(fl) :
                   NonEmpty(fl[i].path) /\ NonEmpty(fl[i].content)}
        kth(k) == CHOOSE i \in idx : Cardinality({j \in idx : j < i}) = k - 1
    IN  [k \in 1..Cardinality(idx) |-> fl[kth(k)]]

\* The edits C19 promises for a plan of the given kind.
PromisedEdits(kind, plan) ==
    IF kind \in {"component", "route"}
    THEN IF NonEmpty(plan.file_path) /\ NonEmpty(plan.content)
         THEN <<[path |-> plan.file_path, content |-> plan.content]>>
         ELSE <<>>
    ELSE IF plan.hasFiles THEN FullEntries(plan.files) ELSE <<>>

\* C19: the file edits issued from a plan are those the plan promises, in
\* order: for a component or a route one edit when the plan carries both a
\* file_path and a content and none otherwise; for a table or the
\* integration one edit per entry of files that carries both a path and a
\* content, in the order of the list, the other entries being passed over.
\* While the unit is being edited the edits issued are a proper beginning of
\* them, once it is over they are all of them, and after a raise they are
\* the beginning that ends with the failing call.
C19_EditsAsPlanned ==
    lastPlan # <<>> =>
        LET okPlans == {i \in CallsOf("plan") : log[i].ok}
            p == CHOOSE i \in okPlans : \A j \in okPlans : j <= i
            wanted == PromisedEdits(log[p].kind, lastPlan[1])
        IN  /\ okPlans # {}
            /\ Len(issued) = Cardinality({i \in CallsOf("edit") : i > p})
            /\ Len(issued) <= Len(wanted)
            /\ \A k \in 1..Len(issued) : issued[k] = wanted[k]
            /\ cpc = "unit_edit" => Len(issued) < Len(wanted)
            /\ cpc \in {"unit_plan", "done"} => issued = wanted
            /\ (cpc = "raised" /\ log[Len(log)].call = "plan") =>
                  issued = wanted

\* The case of C19: a table plan whose first entry lacks its content and
\* whose second entry is complete led to the one edit of the second entry.
C19_Witness ==
    /\ cpc = "unit_plan"
    /\ PhaseOrder[phase] = "integration"
    /\ nTable = 1
    /\ lastPlan # <<>>
    /\ Len(lastPlan[1].files) = 2
    /\ lastPlan[1].files[1].path # ""
    /\ lastPlan[1].files[1].content = "none"
    /\ issued = <<lastPlan[1].files[2]>>

====
